---- MODULE Spec2Model ----
(***************************************************************************)
(* The playground of src/src/App.jsx: a host component (App) that keeps    *)
(* the source text and the Log Store, and a sandboxed iframe that runs the *)
(* text and posts console events back.  The two talk over window           *)
(* postMessage, modelled as one FIFO queue per direction.                  *)
(***************************************************************************)
EXTENDS Integers, Sequences, FiniteSets, TLC

VARIABLES
    code,       \* useState code (App.jsx:31)
    logs,       \* useState logs (App.jsx:38), the Log Store
    crashed,    \* the host tree was unmounted by an exception thrown while rendering
    toSandbox,  \* messages posted to iframe.contentWindow, not yet delivered
    toHost,     \* messages posted to parent, not yet delivered
    loaded,     \* the iframe's script has run and installed its listener
    env,        \* the iframe's global scope, as far as runs can change it
    runs,       \* number of {code} messages dispatched so far (tags the runs)
    edits,      \* number of editor change events so far
    last,       \* the handler that ran last, what it handled and what it emitted
    executed,   \* the runs whose {code} message the sandbox has executed, in order
    view        \* the logged value the console body renders, and what it rendered

vars == <<code, logs, crashed, toSandbox, toHost, loaded, env, runs, edits, last,
          executed, view>>

\* Number of editor change events explored.
MaxEdits == 2

-----------------------------------------------------------------------------
(* JavaScript values, as far as the handlers look at them.                  *)

Absent == "absent"          \* undefined: a field that is not there

\* A message payload (or a log entry's args).
\*   kind "absent": undefined/null      kind "seq": an array of items
\*   kind "nonseq": a value with no fields used here (a number)
\*   kind "err":    an object {message, stack}
PAbsent == [kind |-> "absent", items |-> <<>>, message |-> Absent, stack |-> Absent]
PNonSeq == [kind |-> "nonseq", items |-> <<>>, message |-> Absent, stack |-> Absent]
PArgs(items) == [kind |-> "seq", items |-> items, message |-> Absent, stack |-> Absent]
PErr(message, stack) == [kind |-> "err", items |-> <<>>, message |-> message, stack |-> stack]

\* The code field of a message: a string (the text) or something else.
NoCode == [isString |-> FALSE, text |-> "undefined"]
StringCode(text) == [isString |-> TRUE, text |-> text]
NumberCode == [isString |-> FALSE, text |-> "42"]
ObjectCode == [isString |-> FALSE, text |-> "[object Object]"]

\* Where a message came from: the run that posted it, the statement of the
\* run, and the run's source text.  Not visible to the handlers.
Tag(run, idx, src) == [run |-> run, idx |-> idx, src |-> src]
NoTag == Tag(0, 0, Absent)

\* e.data of a message event.  present = FALSE is a falsy e.data (null).
Data(type, payload, codeField, tag) ==
    [present |-> TRUE, type |-> type, payload |-> payload, code |-> codeField, tag |-> tag]
NoData(tag) ==
    [present |-> FALSE, type |-> Absent, payload |-> PAbsent, code |-> NoCode, tag |-> tag]
EmptyObject(tag) == Data(Absent, PAbsent, NoCode, tag)

-----------------------------------------------------------------------------
(* Source texts and what they do when run.                                  *)

InitialText == "console.log('hello worlds'); const test = {..}; console.log(test); console.log([1,2,4]); cons"
EmptyText == ""
TextThrowNull == "throw null"
TextReplaceLog == "console.log = function(){}"
TextGlobal == "console.log(typeof g); g = 1"
TextClear == "console.log('a'); console.clear(); throw 'boom'"
TextSyntax == "cons {"
TextMalformed == "parent.postMessage({type:'console_error'},'*'); parent.postMessage({type:'console_log',payload:7},'*'); parent.postMessage({type:'console_log'},'*')"
TextUnknown == "console.log('x'); parent.postMessage({type:'pong'},'*'); parent.postMessage(null,'*'); parent.postMessage({},'*'); postMessage({code:42},'*'); postMessage(null,'*'); postMessage({code:{}},'*'); postMessage({},'*')"

TextBoom == "console.log('a', 1); console.log(function(){}); console.log({x:1}); throw new Error('boom')"

Texts == {InitialText, EmptyText, TextThrowNull, TextReplaceLog, TextGlobal,
          TextClear, TextSyntax, TextMalformed, TextUnknown, TextBoom}

\* What the editor's onChange may deliver: a text, or undefined.
EditorValues == Texts \cup {Absent}

S(op, arg) == [op |-> op, arg |-> arg]
Program(ok, body) == [syntaxOk |-> ok, body |-> body]

\* new Function(text): the statements of the text, or a SyntaxError.
Parse(text) ==
    CASE text = InitialText ->
           Program(TRUE, <<S("log", "'hello worlds'"), S("log", "{name,age}"),
                           S("log", "[1,2,4]"), S("throw", "ReferenceError")>>)
      [] text = EmptyText -> Program(TRUE, <<>>)
      [] text = TextThrowNull -> Program(TRUE, <<S("throw", "null")>>)
      [] text = TextReplaceLog -> Program(TRUE, <<S("replace", "log")>>)
      [] text = TextGlobal -> Program(TRUE, <<S("logTypeofG", Absent), S("setG", Absent)>>)
      [] text = TextClear ->
           Program(TRUE, <<S("log", "'a'"), S("clear", Absent), S("throw", "'boom'")>>)
      [] text = TextSyntax -> Program(FALSE, <<>>)
      [] text = TextMalformed ->
           Program(TRUE, <<S("post", "error_nopayload"), S("post", "log_nonseq"),
                           S("post", "log_nopayload")>>)
      [] text = TextUnknown ->
           Program(TRUE, <<S("log", "'x'"), S("post", "unknown_type"), S("post", "nodata"),
                           S("post", "notype"), S("self", "code_number"),
                           S("self", "nodata"), S("self", "code_object"),
                           S("self", "nocode")>>)
      [] text = TextBoom ->
           Program(TRUE, <<S("logArgs", <<"'a'", "1">>), S("log", "function(){}"),
                           S("log", "{x:1}"), S("throw", "Error('boom')")>>)
      [] text \in {"42", "undefined", "null"} -> Program(TRUE, <<>>)
      [] OTHER -> Program(FALSE, <<>>)

-----------------------------------------------------------------------------
(* The sandbox document (iframeSrcDoc).                                     *)

\* The iframe's global scope once its script has run: console.log,
\* console.error and console.clear are the forwarding functions, and no
\* global of a run exists.
FreshEnv == [g |-> FALSE, log |-> "patched", error |-> "patched", clear |-> "patched"]

\* postMessage structured-clones its message; a function cannot be cloned.
Cloneable(v) == v # "function(){}"

\* err.toString() exists for everything but null and undefined.
HasToString(v) == v \notin {"null", "undefined"}

ErrToString_MessageOnly(v) ==
    CASE v = "ReferenceError" -> "cons is not defined"
      [] v = "SyntaxError" -> "Unexpected token '{'"
      [] v = "Error('boom')" -> "boom"
      [] v = "'boom'" -> "boom"
      [] OTHER -> v

\* err.toString(): an Error gives its name, ": " and its message.
ErrToString(v) ==
    CASE v = "ReferenceError" -> "ReferenceError: cons is not defined"
      [] v = "SyntaxError" -> "SyntaxError: Unexpected token '{'"
      [] v = "Error('boom')" -> "Error: boom"
      [] v = "'boom'" -> "boom"
      [] OTHER -> v

\* err.stack: Error objects have one, other thrown values do not.
ErrStack(v) ==
    IF v \in {"ReferenceError", "SyntaxError", "Error('boom')"}
    THEN "at playcode.js" ELSE Absent

\* console.log(...args) as the run finds it.
console_log(e, args, tag) ==
    IF e.log = "patched" /\ \A i \in 1..Len(args) : Cloneable(args[i])
    THEN <<Data("console_log", PArgs(args), NoCode, tag)>>
    ELSE <<>>

\* console.error(err) as the run finds it.  err.toString() is evaluated
\* inside the try, so a TypeError there is swallowed with the message.
console_error(e, err, tag) ==
    IF e.error = "patched" /\ HasToString(err)
    THEN <<Data("console_error", PErr(ErrToString(err), ErrStack(err)), NoCode, tag)>>
    ELSE <<>>

\* console.clear() as the run finds it.
console_clear(e, tag) ==
    IF e.clear = "patched"
    THEN <<Data("console_clear", PAbsent, NoCode, tag)>>
    ELSE <<>>

\* A message the text posts itself, to the parent or to its own window.
RawMessage(name, tag) ==
    CASE name = "error_nopayload" -> Data("console_error", PAbsent, NoCode, tag)
      [] name = "log_nonseq" -> Data("console_log", PNonSeq, NoCode, tag)
      [] name = "log_nopayload" -> Data("console_log", PAbsent, NoCode, tag)
      [] name = "unknown_type" -> Data("pong", PAbsent, NoCode, tag)
      [] name = "notype" -> EmptyObject(tag)
      [] name = "nocode" -> EmptyObject(tag)
      [] name = "code_number" -> Data(Absent, PAbsent, NumberCode, tag)
      [] name = "code_object" -> Data(Absent, PAbsent, ObjectCode, tag)
      [] OTHER -> NoData(tag)

NoThrow == "none"

\* runner(): the statements in order, up to the first throw.  r collects the
\* scope, the messages posted to the parent (out) and to the iframe's own
\* window (self), and the thrown value.
RECURSIVE Exec(_, _, _, _)
Exec(body, i, r, tg) ==
    IF i > Len(body) THEN r
    ELSE LET s == body[i]
             tag == Tag(tg.run, i, tg.src)
         IN CASE s.op = "log" ->
                   Exec(body, i + 1,
                        [r EXCEPT !.out = @ \o console_log(r.env, <<s.arg>>, tag)], tg)
              [] s.op = "logArgs" ->
                   Exec(body, i + 1,
                        [r EXCEPT !.out = @ \o console_log(r.env, s.arg, tag)], tg)
              [] s.op = "logTypeofG" ->
                   Exec(body, i + 1,
                        [r EXCEPT !.out = @ \o console_log(r.env,
                              <<IF r.env.g THEN "'number'" ELSE "'undefined'">>, tag)], tg)
              [] s.op = "setG" ->
                   Exec(body, i + 1, [r EXCEPT !.env.g = TRUE], tg)
              [] s.op = "replace" ->
                   Exec(body, i + 1, [r EXCEPT !.env[s.arg] = "replaced"], tg)
              [] s.op = "clear" ->
                   Exec(body, i + 1, [r EXCEPT !.out = @ \o console_clear(r.env, tag)], tg)
              [] s.op = "post" ->
                   Exec(body, i + 1, [r EXCEPT !.out = Append(@, RawMessage(s.arg, tag))], tg)
              [] s.op = "self" ->
                   Exec(body, i + 1, [r EXCEPT !.self = Append(@, RawMessage(s.arg, tag))], tg)
              [] s.op = "throw" -> [r EXCEPT !.thrown = s.arg]
              [] OTHER -> Exec(body, i + 1, r, tg)

\* const code = e.data && e.data.code
CodeOf(e) == IF e.present THEN e.code ELSE [isString |-> FALSE, text |-> "null"]

IsStringCode_Defined(e) == e.present

\* typeof code === 'string'
IsStringCode(e) == CodeOf(e).isString

\* The sandbox's message listener: what it leaves in the scope, what it
\* posts, whether it ran anything and what the text threw.
Listener(e, scope) ==
    IF ~IsStringCode(e)
    THEN [env |-> scope, out |-> <<>>, self |-> <<>>, thrown |-> NoThrow, ran |-> FALSE]
    ELSE LET text == CodeOf(e).text
             prog == Parse(text)
             tg == Tag(e.tag.run, 0, e.tag.src)
             start == [env |-> scope, out |-> <<>>, self |-> <<>>, thrown |-> NoThrow,
                       ran |-> TRUE]
             r == IF prog.syntaxOk THEN Exec(prog.body, 1, start, tg)
                  ELSE [start EXCEPT !.thrown = "SyntaxError"]
         IN IF r.thrown = NoThrow THEN r
            ELSE [r EXCEPT !.out = @ \o console_error(r.env, r.thrown,
                                        Tag(tg.run, Len(prog.body) + 1, tg.src))]

-----------------------------------------------------------------------------
(* The host component (App).                                                *)

\* A Log Store entry: { type, args }, with the tag of the message it was
\* made from.
Entry(type, args, tag) == [type |-> type, args |-> args, tag |-> tag]

AppendEntry_Prepend(prev, entry) == <<entry>> \o prev

\* setLogs((prev) => [...prev, entry])
AppendEntry(prev, entry) == Append(prev, entry)

ClearedStore_Append(prev, tag) == Append(prev, Entry("clear", PAbsent, tag))

\* setLogs([{ type: "clear" }])
ClearedStore(prev, tag) == <<Entry("clear", PAbsent, tag)>>

ResetStore_Keep(prev) == prev

\* setLogs([]) of the run effect
ResetStore(prev) == <<>>

ButtonStore_Marker(prev) == <<Entry("clear", PAbsent, NoTag)>>

\* setLogs([]) of the console header's button
ButtonStore(prev) == <<>>

\* payload.message, payload.stack: undefined unless the payload has them.
Field(payload, name) == IF payload.kind = "err" THEN payload[name] ELSE Absent

\* const data = e.data || {}
DataOf(e) == IF e.present THEN e ELSE EmptyObject(e.tag)

IsConsoleLog_Default(data) == data.type \notin {"console_error", "console_clear"}

\* data.type === "console_log", "console_error", "console_clear"
IsConsoleLog(data) == data.type = "console_log"
IsConsoleError(data) == data.type = "console_error"
IsConsoleClear(data) == data.type = "console_clear"

\* onMessage(e): the store it sets and whether it threw.  Reading
\* data.payload.message of an undefined payload is a TypeError.
onMessage(prev, e) ==
    LET data == DataOf(e)
    IN IF IsConsoleLog(data)
       THEN [logs |-> AppendEntry(prev, Entry("log", data.payload, data.tag)),
             threw |-> FALSE]
       ELSE IF IsConsoleError(data)
       THEN IF data.payload.kind = "absent"
            THEN [logs |-> prev, threw |-> TRUE]
            ELSE [logs |-> AppendEntry(prev,
                             Entry("error",
                                   PArgs(<<Field(data.payload, "message"),
                                           Field(data.payload, "stack")>>),
                                   data.tag)),
                  threw |-> FALSE]
       ELSE IF IsConsoleClear(data)
       THEN [logs |-> ClearedStore(prev, data.tag), threw |-> FALSE]
       ELSE [logs |-> prev, threw |-> FALSE]

\* Rendering one entry of the console body: log.args[0] and log.args.map
\* throw when args is not what they expect.
RenderOk(entry) ==
    CASE entry.type = "clear" -> TRUE
      [] entry.type = "error" -> entry.args.kind \in {"seq", "nonseq", "err"}
      [] OTHER -> entry.args.kind = "seq"

\* logs.map(...) of the console body
RenderAllOk(store) == \A i \in 1..Len(store) : RenderOk(store[i])

\* iframeRef.current.contentWindow.postMessage({ code }, "*")
CodeMessage(text, run) == Data(Absent, PAbsent, StringCode(text), Tag(run, 0, text))

TextOf_Raw(v) == v

\* onChange={(v) => setCode(v ?? "")}
TextOf(v) == IF v = Absent THEN EmptyText ELSE v

-----------------------------------------------------------------------------
(* Logged values and the preview renderer (CustomObjectLabel, console body) *)

\* Longest array and largest number of keys previewed.
MaxLen == 6
MaxKeys == 4

\* A logged value as the host receives it.  t is what the value is; an
\* array has items, an object has keys (in insertion order) and items (the
\* values of the keys).  "circular" is an object that contains itself.
Value(t, n, s, b, items, keys) ==
    [t |-> t, n |-> n, s |-> s, b |-> b, items |-> items, keys |-> keys]
Num(n) == Value("number", n, "", FALSE, <<>>, <<>>)
Str(s) == Value("string", 0, s, FALSE, <<>>, <<>>)
Bool(b) == Value("boolean", 0, "", b, <<>>, <<>>)
Null == Value("null", 0, "", FALSE, <<>>, <<>>)
Undefined == Value("undefined", 0, "", FALSE, <<>>, <<>>)
BigInt == Value("bigint", 1, "", FALSE, <<>>, <<>>)
Circular == Value("circular", 0, "", FALSE, <<>>, <<>>)
Arr(items) == Value("array", 0, "", FALSE, items, <<>>)
Obj(keys, items) == Value("object", 0, "", FALSE, items, keys)

\* typeof a
TypeOf(v) ==
    CASE v.t \in {"number", "string", "boolean", "undefined", "bigint"} -> v.t
      [] OTHER -> "object"

\* Array.isArray(data)
IsArray(v) == v.t = "array"

\* String(a) of a boolean
BoolString(b) == IF b THEN "true" ELSE "false"

\* Array.prototype.join: the strings with sep between them.
RECURSIVE Join(_, _)
Join(strs, sep) ==
    IF strs = <<>> THEN ""
    ELSE IF Len(strs) = 1 THEN strs[1]
    ELSE strs[1] \o sep \o Join(Tail(strs), sep)

\* slice(0, n)
Slice(seq, n) == SubSeq(seq, 1, IF Len(seq) < n THEN Len(seq) ELSE n)

\* Results of JSON.stringify: a string, undefined, or a TypeError.
JsonText(text) == [threw |-> FALSE, defined |-> TRUE, text |-> text]
JsonUndefined == [threw |-> FALSE, defined |-> FALSE, text |-> "undefined"]
JsonThrows == [threw |-> TRUE, defined |-> FALSE, text |-> ""]

\* JSON.stringify(v).  A circular structure and a BigInt throw; undefined
\* has no encoding (null inside an array, left out of an object).
RECURSIVE JSON_stringify(_)
JSON_stringify(v) ==
    CASE v.t = "number" -> JsonText(ToString(v.n))
      [] v.t = "string" -> JsonText("\"" \o v.s \o "\"")
      [] v.t = "boolean" -> JsonText(BoolString(v.b))
      [] v.t = "null" -> JsonText("null")
      [] v.t = "undefined" -> JsonUndefined
      [] v.t = "array" ->
           LET enc == [i \in 1..Len(v.items) |-> JSON_stringify(v.items[i])]
           IN IF \E i \in 1..Len(enc) : enc[i].threw THEN JsonThrows
              ELSE JsonText("[" \o Join([i \in 1..Len(enc) |->
                                IF enc[i].defined THEN enc[i].text ELSE "null"], ",")
                            \o "]")
      [] v.t = "object" ->
           LET enc == [i \in 1..Len(v.items) |-> JSON_stringify(v.items[i])]
               kept == SelectSeq([i \in 1..Len(enc) |-> i], LAMBDA i : enc[i].defined)
           IN IF \E i \in 1..Len(enc) : enc[i].threw THEN JsonThrows
              ELSE JsonText("{" \o Join([j \in 1..Len(kept) |->
                                "\"" \o v.keys[kept[j]] \o "\":" \o enc[kept[j]].text], ",")
                            \o "}")
      [] OTHER -> JsonThrows

\* What a component returns: its text, or an exception thrown while rendering.
Rendered(kind, text) == [threw |-> FALSE, kind |-> kind, text |-> text]
RenderThrows == [threw |-> TRUE, kind |-> "none", text |-> ""]

ArrayPreview_MoreAtFive(data) ==
    LET enc == [i \in 1..Len(Slice(data.items, 5)) |-> JSON_stringify(data.items[i])]
        more == IF Len(data.items) >= 5 THEN ", ..." ELSE ""
    IN IF \E i \in 1..Len(enc) : enc[i].threw THEN RenderThrows
       ELSE Rendered("array",
              "(" \o ToString(Len(data.items)) \o ") ["
                  \o Join([i \in 1..Len(enc) |->
                             IF enc[i].defined THEN enc[i].text ELSE ""], ", ")
                  \o more \o "]")

\* data.slice(0, 5).map(v => JSON.stringify(v)).join(", ") and the span
\* ({data.length}) [{preview}{more}]
ArrayPreview(data) ==
    LET enc == [i \in 1..Len(Slice(data.items, 5)) |-> JSON_stringify(data.items[i])]
        more == IF Len(data.items) > 5 THEN ", ..." ELSE ""
    IN IF \E i \in 1..Len(enc) : enc[i].threw THEN RenderThrows
       ELSE Rendered("array",
              "(" \o ToString(Len(data.items)) \o ") ["
                  \o Join([i \in 1..Len(enc) |->
                             IF enc[i].defined THEN enc[i].text ELSE ""], ", ")
                  \o more \o "]")

ObjectPreview_CountShown(data) ==
    LET enc == [i \in 1..Len(Slice(data.items, 3)) |-> JSON_stringify(data.items[i])]
        more == IF Len(data.keys) > 3 THEN ", ..." ELSE ""
    IN IF \E i \in 1..Len(enc) : enc[i].threw THEN RenderThrows
       ELSE Rendered("object",
              "(" \o ToString(Len(enc)) \o ") {"
                  \o Join([i \in 1..Len(enc) |-> data.keys[i] \o ": " \o enc[i].text], ", ")
                  \o more \o "}")

\* Object.entries(data).slice(0, 3), `${k}: ${JSON.stringify(v)}` joined by
\* ", ", and the span ({Object.keys(data).length}) {preview more}
ObjectPreview(data) ==
    LET enc == [i \in 1..Len(Slice(data.items, 3)) |-> JSON_stringify(data.items[i])]
        more == IF Len(data.keys) > 3 THEN ", ..." ELSE ""
    IN IF \E i \in 1..Len(enc) : enc[i].threw THEN RenderThrows
       ELSE Rendered("object",
              "(" \o ToString(Len(data.keys)) \o ") {"
                  \o Join([i \in 1..Len(enc) |-> data.keys[i] \o ": " \o enc[i].text], ", ")
                  \o more \o "}")

\* CustomObjectLabel({ data }): array summary, object summary, or the
\* library's ObjectLabel.
CustomObjectLabel(data) ==
    IF IsArray(data) THEN ArrayPreview(data)
    ELSE IF data.t \notin {"null", "undefined"} /\ TypeOf(data) = "object"
    THEN IF data.t = "circular" THEN RenderThrows ELSE ObjectPreview(data)
    ELSE Rendered("ObjectLabel", "")

RenderArg_NoBoolean(a) ==
    IF TypeOf(a) = "string"
    THEN [path |-> "span", className |-> "log-string", text |-> a.s]
    ELSE IF TypeOf(a) = "number"
    THEN [path |-> "span", className |-> "log-number", text |-> ToString(a.n)]
    ELSE [path |-> "Inspector", className |-> "", text |-> ""]

\* log.args.map((a, j) => ...): the element one logged value is shown by.
RenderArg(a) ==
    IF TypeOf(a) = "string"
    THEN [path |-> "span", className |-> "log-string", text |-> a.s]
    ELSE IF TypeOf(a) = "number"
    THEN [path |-> "span", className |-> "log-number", text |-> ToString(a.n)]
    ELSE IF TypeOf(a) = "boolean"
    THEN [path |-> "span",
          className |-> IF a.b THEN "log-boolean-true" ELSE "log-boolean-false",
          text |-> BoolString(a.b)]
    ELSE [path |-> "Inspector", className |-> "", text |-> ""]

-----------------------------------------------------------------------------
(* The state machine.                                                       *)

Did(op, data, before, scope, r) ==
    [op |-> op, data |-> data, before |-> before, scope |-> scope,
     out |-> r.out, ran |-> r.ran, thrown |-> r.thrown, threw |-> r.threw]

Nothing == [out |-> <<>>, ran |-> FALSE, thrown |-> NoThrow, threw |-> FALSE]

\* The value an onChange event delivered, kept as the event's data.
EditorEvent(v) ==
    Data(Absent, PAbsent, IF v = Absent THEN NoCode ELSE StringCode(v), NoTag)

\* No value is being rendered.
NoView ==
    [input |-> Undefined, done |-> FALSE,
     arg |-> [path |-> "none", className |-> "", text |-> ""],
     label |-> Rendered("none", "")]

RunEffectFires_Always(prevCode, nextCode) == TRUE

\* useEffect(..., [code]): after a render the run effect fires when code is
\* not the code of the render before.
RunEffectFires(prevCode, nextCode) == prevCode # nextCode

\* A render with state (nextCode, nextLogs) commits and its effects run:
\* the state the handler leaves behind.
Effects(prevCode, nextCode, nextLogs) ==
    IF RunEffectFires(prevCode, nextCode)
    THEN [fired |-> TRUE,
          logs |-> ResetStore(nextLogs),
          toSandbox |-> Append(toSandbox, CodeMessage(nextCode, runs + 1)),
          runs |-> runs + 1]
    ELSE [fired |-> FALSE, logs |-> nextLogs, toSandbox |-> toSandbox, runs |-> runs]

\* The component has mounted: the effects have run once, the iframe element
\* exists and its document has not loaded yet.
InitApp ==
    /\ code = InitialText
    /\ logs = <<>>
    /\ crashed = FALSE
    /\ toSandbox = <<CodeMessage(InitialText, 1)>>
    /\ toHost = <<>>
    /\ loaded = FALSE
    /\ env = FreshEnv
    /\ runs = 1
    /\ edits = 0
    /\ executed = <<>>
    /\ last = Did("mount", NoData(NoTag), <<>>, FreshEnv, Nothing)

Init == InitApp /\ view = NoView

\* The editor reports a change.  Setting the state to the value it has does
\* not re-render, so no effect runs.
EditorChange(v) ==
    /\ ~crashed
    /\ edits < MaxEdits
    /\ edits' = edits + 1
    /\ IF TextOf(v) = code
       THEN /\ UNCHANGED <<code, logs, toSandbox, runs>>
            /\ last' = Did("sameText", EditorEvent(v), logs, env, Nothing)
       ELSE LET r == Effects(code, TextOf(v), logs)
            IN /\ code' = TextOf(v)
               /\ logs' = r.logs
               /\ runs' = r.runs
               /\ toSandbox' = r.toSandbox
               /\ last' = Did(IF r.fired THEN "runEffect" ELSE "edit",
                              EditorEvent(v), logs, env, Nothing)
    /\ UNCHANGED <<crashed, toHost, loaded, env, executed, view>>

\* The console header's button.
ClearButton ==
    /\ ~crashed
    /\ LET r == Effects(code, code, ButtonStore(logs))
       IN /\ logs' = r.logs
          /\ runs' = r.runs
          /\ toSandbox' = r.toSandbox
    /\ last' = Did("clearButton", NoData(NoTag), logs, env, Nothing)
    /\ UNCHANGED <<code, crashed, toHost, loaded, env, edits, executed, view>>

\* A message event on the host window.  Once the tree is unmounted the
\* listener is gone and the event has no effect.  A render that throws
\* unmounts the tree before any effect runs.
HostMessage ==
    /\ toHost # <<>>
    /\ toHost' = Tail(toHost)
    /\ IF crashed
       THEN /\ UNCHANGED <<logs, crashed, toSandbox, runs>>
            /\ last' = Did("unheard", Head(toHost), logs, env, Nothing)
       ELSE LET m == onMessage(logs, Head(toHost))
                r == IF RenderAllOk(m.logs) THEN Effects(code, code, m.logs)
                     ELSE [fired |-> FALSE, logs |-> m.logs,
                           toSandbox |-> toSandbox, runs |-> runs]
            IN /\ logs' = r.logs
               /\ runs' = r.runs
               /\ toSandbox' = r.toSandbox
               /\ crashed' = ~RenderAllOk(m.logs)
               /\ last' = Did("onMessage", Head(toHost), logs, env,
                              [Nothing EXCEPT !.threw = m.threw])
    /\ UNCHANGED <<code, loaded, env, edits, executed, view>>

\* The iframe's document loads: its script patches console and adds the
\* message listener.
SandboxLoad ==
    /\ ~loaded
    /\ loaded' = TRUE
    /\ env' = FreshEnv
    /\ last' = Did("load", NoData(NoTag), logs, env, Nothing)
    /\ UNCHANGED <<code, logs, crashed, toSandbox, toHost, runs, edits, executed, view>>

\* A message event on the iframe's window.  Before the document has loaded
\* nothing listens.
SandboxMessage ==
    /\ toSandbox # <<>>
    /\ IF ~loaded
       THEN /\ toSandbox' = Tail(toSandbox)
            /\ UNCHANGED <<toHost, env, executed>>
            /\ last' = Did("unheard", Head(toSandbox), logs, env, Nothing)
       ELSE LET r == Listener(Head(toSandbox), env)
            IN /\ toSandbox' = Tail(toSandbox) \o r.self
               /\ toHost' = toHost \o r.out
               /\ env' = r.env
               /\ executed' = IF r.ran THEN Append(executed, Head(toSandbox).tag.run)
                              ELSE executed
               /\ last' = Did("listener", Head(toSandbox), logs, env,
                              [out |-> r.out, ran |-> r.ran, thrown |-> r.thrown,
                               threw |-> FALSE])
    /\ UNCHANGED <<code, logs, crashed, loaded, runs, edits, view>>

Next ==
    \/ \E v \in EditorValues : EditorChange(v)
    \/ ClearButton
    \/ HostMessage
    \/ SandboxLoad
    \/ SandboxMessage

Spec == Init /\ [][Next]_vars

-----------------------------------------------------------------------------
(* The console body rendering one logged value, for every value of a       *)
(* bounded set.                                                             *)

SeqsUpTo(set, n) == UNION {[1..k -> set] : k \in 0..n}

BaseElements == {Num(1), Str("a"), Circular}

AllElements ==
    {Num(1), Num(42), Str("hello"), Bool(TRUE), Bool(FALSE), Null, Undefined, BigInt,
     Circular, Arr(<<Num(1), Undefined>>), Obj(<<"x">>, <<Num(1)>>)}

ObjectElements == {Str("a"), Circular}

KeyNames == {"a", "b", "c", "d", "e"}

KeySeqs == {ks \in SeqsUpTo(KeyNames, MaxKeys) :
              \A i, j \in 1..Len(ks) : i # j => ks[i] # ks[j]}

RenderInputs ==
    AllElements
    \cup {Arr(items) : items \in SeqsUpTo(BaseElements, MaxLen)}
    \cup {Arr(items) : items \in SeqsUpTo(AllElements, 2)}
    \cup {Arr(<<Num(1), Num(2), Num(3), Num(4), Num(5), Num(6)>>),
          Arr(<<Num(1), Num(2)>>),
          Obj(<<"a", "b", "c", "d">>, <<Num(1), Num(2), Num(3), Num(4)>>)}
    \cup UNION {{Obj(ks, items) : items \in [1..Len(ks) -> ObjectElements]} : ks \in KeySeqs}

InitRender ==
    /\ InitApp
    /\ view \in {[NoView EXCEPT !.input = v] : v \in RenderInputs}

\* log.args.map renders the value: a styled span for a primitive, else the
\* Inspector, whose label is CustomObjectLabel.
RenderValue ==
    /\ ~view.done
    /\ view' = [input |-> view.input,
                done |-> TRUE,
                arg |-> RenderArg(view.input),
                label |-> IF RenderArg(view.input).path = "Inspector"
                          THEN CustomObjectLabel(view.input)
                          ELSE Rendered("none", "")]
    /\ UNCHANGED <<code, logs, crashed, toSandbox, toHost, loaded, env, runs, edits,
                   executed, last>>

NextRender == RenderValue

RenderSpec == InitRender /\ [][NextRender]_vars

-----------------------------------------------------------------------------
(* Properties.                                                              *)

ClearMarker(tag) == Entry("clear", PAbsent, tag)

\* The host's onMessage has just handled a message of this type.
Handled(type) == last.op = "onMessage" /\ last.data.present /\ last.data.type = type

\* C1: every entry in the Log Store was produced by a run of the current
\* source text, whatever the interleaving of edits and message delivery.
C1_EntriesOfCurrentText ==
    \A i \in 1..Len(logs) : logs[i].tag.src = code

\* C2: when the source text changes, the Log Store is emptied and the {code}
\* message of the new run is dispatched with nothing of the new run in
\* existence yet: the reset removes no entry of its own run.
C2_ResetPrecedesNewRun ==
    last.op = "runEffect" =>
        /\ logs = <<>>
        /\ toSandbox # <<>>
        /\ toSandbox[Len(toSandbox)] = CodeMessage(code, runs)
        /\ \A i \in 1..Len(last.before) : last.before[i].tag.run < runs
        /\ \A i \in 1..Len(toHost) : toHost[i].tag.run < runs

C2_Witness ==
    /\ last.op = "runEffect"
    /\ last.before # <<>>
    /\ logs = <<>>
    /\ toHost # <<>>

\* C3 as stated: handling console_clear adds one "cleared" marker at the end
\* of the store and keeps every earlier entry in place.
C3_ClearAppendsMarker ==
    Handled("console_clear") =>
        logs = Append(last.before, ClearMarker(last.data.tag))

\* C3 amended: handling console_clear leaves exactly the "cleared" marker in
\* the store; the entries that were there before are removed.
C3_ClearLeavesOnlyMarker ==
    Handled("console_clear") => logs = <<ClearMarker(last.data.tag)>>

C3_Witness ==
    /\ Handled("console_clear")
    /\ last.before # <<>>
    /\ logs = <<ClearMarker(last.data.tag)>>

\* C4: the output entries of one run are in the store in the order of the
\* run's console.log calls.
C4_OutputInCallOrder ==
    \A i, j \in 1..Len(logs) :
        (/\ i < j
         /\ logs[i].type = "log" /\ logs[j].type = "log"
         /\ logs[i].tag.run = logs[j].tag.run)
            => logs[i].tag.idx < logs[j].tag.idx

C4_Witness ==
    /\ Len(logs) >= 3
    /\ \A i \in 1..3 : logs[i].type = "log" /\ logs[i].tag.run = logs[1].tag.run
    /\ logs[1].tag.idx < logs[2].tag.idx /\ logs[2].tag.idx < logs[3].tag.idx

ErrorEvents(out) == {i \in 1..Len(out) : out[i].type = "console_error"}

\* C5: a run whose text throws emits exactly one error event, and it is the
\* last event of the run.
C5_ThrowYieldsOneError ==
    (last.op = "listener" /\ last.thrown # NoThrow) =>
        /\ Cardinality(ErrorEvents(last.out)) = 1
        /\ last.out[Len(last.out)].type = "console_error"

\* C6: a run emits what the same text emits in a sandbox no run has touched.
C6_RunsFromFreshScope ==
    (last.op = "listener" /\ last.ran) =>
        last.out = Listener(last.data, FreshEnv).out

\* C7: the console header's clear button leaves the store with no entries.
C7_ClearButtonEmpties ==
    last.op = "clearButton" => logs = <<>>

C7_Witness ==
    /\ last.op = "clearButton"
    /\ Len(last.before) >= 2
    /\ toHost # <<>>
    /\ logs = <<>>

\* A console_log or console_error message without the payload its branch reads.
Malformed(d) ==
    \/ d.type = "console_log" /\ d.payload.kind # "seq"
    \/ d.type = "console_error" /\ d.payload.kind # "err"

\* C8: a message whose payload lacks the expected fields is ignored: the
\* handler does not throw, the store is unchanged and still renders.
C8_MalformedIgnored ==
    (last.op = "onMessage" /\ last.data.present /\ Malformed(last.data)) =>
        /\ ~last.threw
        /\ logs = last.before
        /\ RenderAllOk(logs)
        /\ ~crashed

\* C9: a message whose type is none of console_log, console_error,
\* console_clear (or that has no type, or no data) leaves the store as it was.
C9_UnknownTypeIgnored ==
    (/\ last.op = "onMessage"
     /\ \/ ~last.data.present
        \/ last.data.type \notin {"console_log", "console_error", "console_clear"})
        => logs = last.before /\ ~last.threw /\ ~crashed

C9_Witness ==
    /\ last.op = "onMessage"
    /\ ~last.data.present
    /\ last.before # <<>>
    /\ logs = last.before

\* C10: an inbound message without a string in its code field makes the
\* sandbox run nothing and post nothing; the store is not affected.
C10_NonStringCodeIgnored ==
    (/\ last.op = "listener"
     /\ ~(last.data.present /\ last.data.code.isString))
        => /\ ~last.ran
           /\ last.out = <<>>
           /\ env = last.scope
           /\ logs = last.before

C10_Witness ==
    /\ last.op = "listener"
    /\ last.data.present
    /\ last.data.code = ObjectCode
    /\ ~last.ran
    /\ last.out = <<>>

-----------------------------------------------------------------------------
(* Properties of the renderer (checked under RenderSpec).                   *)

Min(a, b) == IF a < b THEN a ELSE b

\* The value has a JSON encoding, and which.
Encodable(v) == JSON_stringify(v).defined
Encoding(v) == JSON_stringify(v).text

\* C11: rendering a logged value never throws inside the preview renderer,
\* also when the value cannot be JSON-encoded.
C11_PreviewNeverThrows ==
    view.done => ~view.label.threw

\* The preview the spec gives for an array: "(N) [", the encodings of the
\* first min(N,5) elements joined by ", ", ", ..." iff N > 5, "]".
ClaimedArrayPreview(items) ==
    "(" \o ToString(Len(items)) \o ") ["
        \o Join([i \in 1..Min(Len(items), 5) |-> Encoding(items[i])], ", ")
        \o (IF Len(items) > 5 THEN ", ..." ELSE "")
        \o "]"

\* C14: for every array whose first min(N,5) elements have a JSON encoding,
\* the preview is the claimed text; [1,2,3,4,5,6] and [1,2] give the texts
\* the spec quotes.
C14_ArrayPreviewFormat ==
    (/\ view.done
     /\ view.input.t = "array"
     /\ \A i \in 1..Min(Len(view.input.items), 5) : Encodable(view.input.items[i]))
        => /\ ~view.label.threw
           /\ view.label.text = ClaimedArrayPreview(view.input.items)
           /\ view.input = Arr(<<Num(1), Num(2), Num(3), Num(4), Num(5), Num(6)>>)
                 => view.label.text = "(6) [1, 2, 3, 4, 5, ...]"
           /\ view.input = Arr(<<Num(1), Num(2)>>)
                 => view.label.text = "(2) [1, 2]"

C14_Witness ==
    /\ view.done
    /\ view.input = Arr(<<Num(1), Num(2), Num(3), Num(4), Num(5), Num(6)>>)
    /\ view.label.text = "(6) [1, 2, 3, 4, 5, ...]"

\* The preview the spec gives for an object: "(K) {", the first min(K,3)
\* pairs as key, ": ", encoding, joined by ", ", ", ..." iff K > 3, "}".
ClaimedObjectPreview(keys, items) ==
    "(" \o ToString(Len(keys)) \o ") {"
        \o Join([i \in 1..Min(Len(keys), 3) |-> keys[i] \o ": " \o Encoding(items[i])], ", ")
        \o (IF Len(keys) > 3 THEN ", ..." ELSE "")
        \o "}"

\* C15: for every plain object whose first min(K,3) values have a JSON
\* encoding, the preview is the claimed text; {a:1,b:2,c:3,d:4} gives the
\* text the spec quotes.
C15_ObjectPreviewFormat ==
    (/\ view.done
     /\ view.input.t = "object"
     /\ \A i \in 1..Min(Len(view.input.keys), 3) : Encodable(view.input.items[i]))
        => /\ ~view.label.threw
           /\ view.label.text = ClaimedObjectPreview(view.input.keys, view.input.items)
           /\ view.input = Obj(<<"a", "b", "c", "d">>, <<Num(1), Num(2), Num(3), Num(4)>>)
                 => view.label.text = "(4) {a: 1, b: 2, c: 3, ...}"

C15_Witness ==
    /\ view.done
    /\ view.input = Obj(<<"a", "b", "c", "d">>, <<Num(1), Num(2), Num(3), Num(4)>>)
    /\ view.label.text = "(4) {a: 1, b: 2, c: 3, ...}"

\* C16: a string, number or boolean is rendered by its own span (string
\* verbatim, number converted, boolean as "true"/"false" styled by its
\* value) and never by the structured preview; every other value is.
C16_PrimitiveRouting ==
    view.done =>
        /\ view.input.t = "string" =>
              view.arg = [path |-> "span", className |-> "log-string",
                          text |-> view.input.s]
        /\ view.input.t = "number" =>
              view.arg = [path |-> "span", className |-> "log-number",
                          text |-> ToString(view.input.n)]
        /\ view.input.t = "boolean" =>
              /\ view.arg.path = "span"
              /\ view.arg.text = (IF view.input.b THEN "true" ELSE "false")
              /\ view.arg.className # RenderArg(Bool(~view.input.b)).className
        /\ view.input.t \in {"string", "number", "boolean"} => view.label.kind = "none"
        /\ view.input.t \notin {"string", "number", "boolean"} =>
              view.arg.path = "Inspector"

C16_Witness ==
    /\ view.done
    /\ view.input = Bool(TRUE)
    /\ view.arg.path = "span"
    /\ view.arg.text = "true"

-----------------------------------------------------------------------------
(* Properties of runs (checked under Spec).                                 *)

\* The value a text throws when run from a fresh scope, NoThrow if none.
ThrownBy(text) ==
    LET prog == Parse(text)
        throws == {i \in 1..Len(prog.body) : prog.body[i].op = "throw"}
    IN IF ~prog.syntaxOk THEN "SyntaxError"
       ELSE IF throws = {} THEN NoThrow
       ELSE prog.body[CHOOSE i \in throws : \A j \in throws : i <= j].arg

\* The entry was made from the message the listener's catch posted for
\* the text's throw.
FromCatch(entry) ==
    /\ entry.type = "error"
    /\ entry.tag.src \in Texts
    /\ entry.tag.idx = Len(Parse(entry.tag.src).body) + 1

\* The message of a thrown value, its string form, and whether it has a stack.
ClaimedMessage(v) ==
    CASE v = "Error('boom')" -> "boom"
      [] v = "ReferenceError" -> "cons is not defined"
      [] v = "SyntaxError" -> "Unexpected token '{'"
      [] OTHER -> "boom"

ClaimedString(v) ==
    CASE v = "Error('boom')" -> "Error: boom"
      [] v = "ReferenceError" -> "ReferenceError: cons is not defined"
      [] v = "SyntaxError" -> "SyntaxError: Unexpected token '{'"
      [] OTHER -> "boom"

ClaimedHasStack(v) == v \in {"Error('boom')", "ReferenceError", "SyntaxError"}

\* C12 as stated: the error entry of a thrown value carries its message
\* ("boom" for Error("boom")) and its stack exactly when it has one.
C12_EntryCarriesMessage ==
    \A i \in 1..Len(logs) :
        FromCatch(logs[i]) =>
            /\ logs[i].args.items[1] = ClaimedMessage(ThrownBy(logs[i].tag.src))
            /\ (logs[i].args.items[2] # Absent) <=> ClaimedHasStack(ThrownBy(logs[i].tag.src))

\* C12 amended: the error entry of a thrown value carries the value's string
\* form, toString() ("Error: boom" for Error("boom")), and its stack exactly
\* when it has one.
C12_EntryCarriesString ==
    \A i \in 1..Len(logs) :
        FromCatch(logs[i]) =>
            /\ logs[i].args.items[1] = ClaimedString(ThrownBy(logs[i].tag.src))
            /\ (logs[i].args.items[2] # Absent) <=> ClaimedHasStack(ThrownBy(logs[i].tag.src))

C12_Witness ==
    \E i, j \in 1..Len(logs) :
        /\ FromCatch(logs[i]) /\ logs[i].tag.src = TextBoom
        /\ logs[i].args.items = <<"Error: boom", "at playcode.js">>
        /\ FromCatch(logs[j]) /\ logs[j].tag.src = TextClear
        /\ logs[j].args.items = <<"boom", Absent>>

\* The console.log calls a run of the text makes (statements up to its
\* first throw), and the arguments of each.
LogCalls(text) ==
    LET body == Parse(text).body
    IN {i \in 1..Len(body) :
          /\ body[i].op \in {"log", "logArgs"}
          /\ \A j \in 1..i : body[j].op # "throw"}

ArgsOf(stmt) == IF stmt.op = "logArgs" THEN stmt.arg ELSE <<stmt.arg>>

\* C13: every console.log call of a run results in exactly one output event
\* carrying the call's arguments in order.
C13_EveryLogCallOneEvent ==
    (last.op = "listener" /\ last.ran) =>
        \A i \in LogCalls(last.data.code.text) :
            LET hits == {j \in 1..Len(last.out) :
                           last.out[j].type = "console_log" /\ last.out[j].tag.idx = i}
            IN /\ Cardinality(hits) = 1
               /\ \A j \in hits :
                     last.out[j].payload =
                        PArgs(ArgsOf(Parse(last.data.code.text).body[i]))

\* C17: once no {code} message is waiting, every dispatched text, the
\* initial one included, has been executed by the sandbox exactly once.
C17_EveryTextRunsOnce ==
    (\A i \in 1..Len(toSandbox) : ~toSandbox[i].code.isString)
        => executed = [r \in 1..runs |-> r]

\* C18: handling a sandbox message or pressing the clear button changes
\* neither the source text nor what has been dispatched, and a run is
\* dispatched exactly when the source text changes.
C18_OnlyEditsDispatchRuns ==
    [][/\ last'.op \in {"onMessage", "clearButton"}
            => UNCHANGED <<code, toSandbox, runs>>
       /\ runs' # runs => code' # code
       /\ code' # code => runs' = runs + 1
       /\ runs' # runs =>
            toSandbox' = Append(toSandbox, CodeMessage(code', runs'))]_vars

C18_Witness ==
    /\ last.op = "onMessage"
    /\ Len(logs) > Len(last.before)
    /\ runs >= 2
    /\ executed # <<>>

\* C19: an editor event delivering the current text changes nothing and
\* dispatches nothing; an event delivering undefined sets the empty text.
C19_SameTextIsNoOp ==
    [][last'.op \in {"sameText", "edit", "runEffect"} =>
         LET delivered == IF last'.data.code.isString
                          THEN last'.data.code.text ELSE ""
         IN /\ code' = delivered
            /\ delivered = code => UNCHANGED <<code, logs, toSandbox, toHost, runs>>]_vars

C19_Witness ==
    /\ last.op = "sameText"
    /\ ~last.data.code.isString
    /\ code = EmptyText
    /\ last.before # <<>>
    /\ logs = last.before

====
